---- MODULE Spec2Model ----
(***************************************************************************)
(* Drawing block of paperlike: the DefaultDrawingEngine (element, view     *)
(* state and file store), the ActionRecorder (action log and undo cursor), *)
(* the pure history and patch functions, the Emitter, and the              *)
(* DrawingBlockController that ties them together.                         *)
(*                                                                         *)
(* JavaScript objects are functions from their own keys to values; a key   *)
(* that is present with the value undefined differs from an absent key.    *)
(* All scalar field values are strings. Arrays are sequences (1-based), so *)
(* the action the code addresses as actions[i] is actions[i + 1] here.     *)
(***************************************************************************)
EXTENDS Integers, Sequences, FiniteSets, TLC

\* The number of record() calls a behaviour may make.
MaxRecords == 3

\* The same for the behaviours with listeners, with selection or loadScene.
MaxHeardRecords == 1

\* The same for the behaviours in which a second controller is restored.
MaxTwinRecords == 2

\* The number of registrations an emitter may hold at a time.
MaxRegistrations == 2

\* The number of controller calls that emit, and the number of emit calls in
\* progress at a time, where listeners call the controller.
MaxCalls == 3
MaxNested == 2

\* The number of elements the engine holds where it is called directly,
\* without subscribers and with them.
MaxElements == 2
MaxHeardElements == 1

\* The number of actions of a log that the history functions are used on.
MaxHistory == 3

\* The largest actionCount that is loaded with a log of any length.
MaxLoadedCount == 3

\* The number of blocks of a document body.
MaxBlocks == 3

\* The last tick of the clock, and the longest time a lease is granted for.
MaxTime == 3
MaxLeaseTime == 2

\* The number of patches given to one applyPatches call, and the number of
\* elements of the scenes it is called on.
MaxPatches == 2
MaxPatchedElements == 1

----------------------------------------------------------------------------
\* Values the callers pass in.

Undefined == "undefined"
EmptyObject == << >>
DrawingIdValue == "d-test"

ElementIds == {"r1", "e1", "e2", "e3"}

makeElement(id) == [id |-> id, x |-> "10"]

NewElements == {makeElement(id) : id \in ElementIds}

ElementPatches == {[x |-> "50"], [id |-> "e2", tag |-> "a"]}

AppStatePatches == {[viewBackgroundColor |-> "#000"], [viewBackgroundColor |-> "#fff"]}

FileA == [mimeType |-> "image/png", dataURL |-> "data:A"]
FileB == [mimeType |-> "image/png", dataURL |-> "data:B"]

FileMaps == {[f1 |-> FileA], [f1 |-> FileB]}

SelectionSets == {{}, {"e1"}}

\* the callbacks given to onChange, and the subscribers of the engine (each
\* with an onElementsChange and an onSelectionChange handler)
ChangeListeners == {"L1", "L2"}
EngineSubscribers == {"E1"}

\* the values given to emit
EmitValues == {"v1", "v2"}

\* the events objects given to engine.subscribe; each has both callbacks
EngineEvents == {"E1", "E2"}

\* What loadScene is given: the scene, log and history state of a drawing
\* with one add_element action (made elsewhere, under the group id 0), with
\* the action in effect and with the action undone.
LoadedAction ==
  [drawingId      |-> DrawingIdValue,
   historyGroupId |-> 0,
   forward        |-> <<[type |-> "add_element", element |-> makeElement("e1")]>>,
   inverse        |-> <<[type |-> "delete_element", elementId |-> "e1"]>>,
   timestamp      |-> 1000]

LoadInputs ==
  {[scene |-> [drawingId |-> DrawingIdValue,
               elements  |-> <<makeElement("e1")>>,
               appState  |-> [viewBackgroundColor |-> "#fff"],
               files     |-> << >>],
    actions |-> <<LoadedAction>>,
    historyState |-> [undoCursor |-> 0, actionCount |-> 1]],
   [scene |-> [drawingId |-> DrawingIdValue,
               elements  |-> << >>,
               appState  |-> << >>,
               files     |-> [f1 |-> FileA]],
    actions |-> <<LoadedAction>>,
    historyState |-> [undoCursor |-> -1, actionCount |-> 1]]}

\* the patches given to applyPatches: the five variants, and a variant that
\* apply.ts does not know
PatchElementIds == {"e1", "e2"}

UnknownPatch == [type |-> "future_patch"]

PatchInputs ==
  {[type |-> "add_element", element |-> makeElement(id)] : id \in PatchElementIds}
    \cup {[type |-> "update_element", elementId |-> id, patch |-> [x |-> "50"]] :
            id \in PatchElementIds}
    \cup {[type |-> "delete_element", elementId |-> id] : id \in PatchElementIds}
    \cup {[type |-> "set_app_state", patch |-> [viewBackgroundColor |-> "#000"]],
          [type |-> "upsert_files", files |-> [f1 |-> FileA]],
          UnknownPatch}

\* the actions a caller of the history functions appends to its log
HistoryActions ==
  {[LoadedAction EXCEPT
      !.forward = <<[type |-> "add_element", element |-> makeElement(id)]>>,
      !.inverse = <<[type |-> "delete_element", elementId |-> id]>>] :
     id \in PatchElementIds}
    \cup {[LoadedAction EXCEPT
             !.forward = <<[type |-> "set_app_state",
                            patch |-> [viewBackgroundColor |-> "#000"]]>>,
             !.inverse = <<[type |-> "set_app_state",
                            patch |-> [viewBackgroundColor |-> "#fff"]]>>]}

\* What loadScene is given when nobody has checked it: a scene, a log of
\* zero to two actions, and a history state that may not match the log.
UncheckedLoadInputs ==
  {[scene |-> input.scene, actions |-> log,
    historyState |-> [undoCursor |-> cursor, actionCount |-> count]] :
     input \in LoadInputs,
     log \in {<< >>, <<LoadedAction>>} \cup
              {<<LoadedAction, action>> : action \in HistoryActions},
     cursor \in -2..(MaxLoadedCount - 1),
     count \in 0..MaxLoadedCount}

\* the blocks of a document body, and the afterBlockId arguments
Null == "null"

BlockIds == {"a", "b", "c"}

BlockInputs ==
  {[id |-> id, type |-> "paragraph", text |-> text] :
     id \in BlockIds, text \in {"one", "two"}}

\* the actors, sessions and lease ids of the leases and of the operations
\* that are validated against them
ActorIds == {"actor-1", "actor-2"}
SessionIds == {"sess-1", "sess-2"}
LeaseIds == {"lease-1", "lease-2"}

PatchLists == UNION {[1..n -> PatchInputs] : n \in 0..MaxPatches}

----------------------------------------------------------------------------
\* JavaScript helpers.

\* { ...a, ...b }
Spread(a, b) ==
  [k \in (DOMAIN a) \cup (DOMAIN b) |-> IF k \in DOMAIN b THEN b[k] ELSE a[k]]

\* obj[key], undefined for an absent key
Get(obj, key) == IF key \in DOMAIN obj THEN obj[key] ELSE Undefined

\* arr.slice(0, end)
Slice(arr, end) ==
  LET stop == IF end < 0 THEN Len(arr) + end ELSE end
      last == IF stop < 0 THEN 0 ELSE IF stop > Len(arr) THEN Len(arr) ELSE stop
  IN SubSeq(arr, 1, last)

\* arr with the element at (1-based) index idx removed: arr.splice(idx, 1)
Splice(arr, idx) ==
  [i \in 1..(Len(arr) - 1) |-> IF i < idx THEN arr[i] ELSE arr[i + 1]]

----------------------------------------------------------------------------
\* apply.ts

applyElementPatchNoDelete(elements, patch) ==
  CASE patch.type = "add_element" -> Append(elements, patch.element)
    [] patch.type = "update_element" ->
         [i \in DOMAIN elements |->
            IF elements[i].id = patch.elementId
            THEN Spread(Spread(elements[i], patch.patch), [id |-> elements[i].id])
            ELSE elements[i]]
    [] OTHER -> elements

applyElementPatch(elements, patch) ==
  CASE patch.type = "add_element" -> Append(elements, patch.element)
    [] patch.type = "update_element" ->
         [i \in DOMAIN elements |->
            IF elements[i].id = patch.elementId
            THEN Spread(Spread(elements[i], patch.patch), [id |-> elements[i].id])
            ELSE elements[i]]
    [] patch.type = "delete_element" ->
         SelectSeq(elements, LAMBDA el : el.id # patch.elementId)
    [] OTHER -> elements

applyAppStatePatchAnyPatch(appState, patch) ==
  IF "patch" \in DOMAIN patch THEN Spread(appState, patch.patch) ELSE appState

applyAppStatePatch(appState, patch) ==
  IF patch.type = "set_app_state" THEN Spread(appState, patch.patch) ELSE appState

applyFilesPatchReplace(files, patch) ==
  IF patch.type = "upsert_files" THEN patch.files ELSE files

applyFilesPatch(files, patch) ==
  IF patch.type = "upsert_files" THEN Spread(files, patch.files) ELSE files

RECURSIVE applyPatchesStopsAtUnknown(_, _)
applyPatchesStopsAtUnknown(scene, patches) ==
  IF patches = << >> THEN scene
  ELSE IF Head(patches).type \notin {"add_element", "update_element", "delete_element",
                                     "set_app_state", "upsert_files"}
  THEN scene
  ELSE applyPatchesStopsAtUnknown(
         [drawingId |-> scene.drawingId,
          elements  |-> applyElementPatch(scene.elements, Head(patches)),
          appState  |-> applyAppStatePatch(scene.appState, Head(patches)),
          files     |-> applyFilesPatch(scene.files, Head(patches))],
         Tail(patches))

RECURSIVE applyPatches(_, _)
applyPatches(scene, patches) ==
  IF patches = << >> THEN scene
  ELSE applyPatches(
         [drawingId |-> scene.drawingId,
          elements  |-> applyElementPatch(scene.elements, Head(patches)),
          appState  |-> applyAppStatePatch(scene.appState, Head(patches)),
          files     |-> applyFilesPatch(scene.files, Head(patches))],
         Tail(patches))

----------------------------------------------------------------------------
\* history.ts

createInitialHistoryState == [undoCursor |-> -1, actionCount |-> 0]

advanceHistoryKeepCount(state) ==
  [undoCursor |-> state.actionCount, actionCount |-> state.actionCount]

advanceHistory(state) ==
  [undoCursor |-> state.actionCount, actionCount |-> state.actionCount + 1]

canUndoOffByOne(state) == state.undoCursor > 0

canUndo(state) == state.undoCursor >= 0

canRedoOffByOne(state) == state.undoCursor < state.actionCount

canRedo(state) == state.undoCursor < state.actionCount - 1

undoHistoryStateUnguarded(state) ==
  [state EXCEPT !.undoCursor = state.undoCursor - 1]

undoHistoryState(state) ==
  IF ~canUndo(state) THEN state
  ELSE [state EXCEPT !.undoCursor = state.undoCursor - 1]

redoHistoryStateStuck(state) == state

redoHistoryState(state) ==
  IF ~canRedo(state) THEN state
  ELSE [state EXCEPT !.undoCursor = state.undoCursor + 1]

\* 0 and an index past the end stand for the code's undefined action
applyUndo(scene, log, state) ==
  IF ~canUndo(state) THEN scene
  ELSE IF state.undoCursor + 1 \notin DOMAIN log THEN scene
  ELSE applyPatches(scene, log[state.undoCursor + 1].inverse)

applyRedo(scene, log, state) ==
  IF ~canRedo(state) THEN scene
  ELSE IF state.undoCursor + 2 \notin DOMAIN log THEN scene
  ELSE applyPatches(scene, log[state.undoCursor + 2].forward)

----------------------------------------------------------------------------
\* body/apply.ts

\* 0 stands for the code's -1
findBlockIndex(list, blockId) ==
  IF \E i \in 1..Len(list) : list[i].id = blockId
  THEN CHOOSE i \in 1..Len(list) :
         /\ list[i].id = blockId
         /\ \A j \in 1..(i - 1) : list[j].id # blockId
  ELSE 0

insertBlock(list, block, afterBlockId) ==
  IF afterBlockId = Null THEN <<block>> \o list
  ELSE LET index == findBlockIndex(list, afterBlockId) IN
       IF index = 0 THEN Append(list, block)
       ELSE SubSeq(list, 1, index) \o <<block>> \o SubSeq(list, index + 1, Len(list))

deleteBlock(list, blockId) == SelectSeq(list, LAMBDA b : b.id # blockId)

moveBlock(list, blockId, afterBlockId) ==
  IF findBlockIndex(list, blockId) = 0 THEN list
  ELSE LET block   == list[findBlockIndex(list, blockId)]
           without == SelectSeq(list, LAMBDA b : b.id # blockId)
       IN insertBlock(without, block, afterBlockId)

----------------------------------------------------------------------------
\* body/lease.ts

isLeaseValidAtExpiry(l, t) == l.expiresAt >= t

isLeaseValid(l, t) == l.expiresAt > t

isLeaseOwner(l, actorId, sessionId) ==
  l.actorId = actorId /\ l.sessionId = sessionId

validateLease(l, actorId, sessionId, leaseId, t) ==
  l.leaseId = leaseId /\ isLeaseOwner(l, actorId, sessionId) /\ isLeaseValid(l, t)

----------------------------------------------------------------------------
\* State. The engine's fields, the recorder's fields, and the counter behind
\* the injected createHistoryGroupId (it also serves as the logical clock of
\* Date.now()).

VARIABLES
  elements,      \* DefaultDrawingEngine.elements
  appState,      \* DefaultDrawingEngine.appState
  files,         \* DefaultDrawingEngine.files
  selectedIds,   \* DefaultDrawingEngine.selectedIds
  actions,       \* ActionRecorder.actions
  historyState,  \* ActionRecorder.historyState
  groupCounter,  \* calls of createHistoryGroupId so far
  last,          \* the latest call that took effect, and the actions it discarded
  pre,           \* pre[i]: the engine snapshot just before actions[i] was recorded
  phase,         \* consecutive recorded operations, and the undos that followed them
  played,        \* progress through one of the scenarios
  distinct,      \* no scene so far held two elements with one id
  listeners,     \* the controller's Emitter.listeners
  engineListeners, \* DefaultDrawingEngine.listeners
  heard,         \* the latest call made while anyone listened, and what it delivered
  twin,          \* a second controller restored from this one, once there is one
  limit,         \* the number of record() calls this behaviour may make
  emission,      \* the emit call in progress: the array it walks and its place in it
  invoked,       \* the callbacks the latest emit call has called so far, in order
  cancelled,     \* the callbacks whose unsubscribe function has been called
  frames,        \* the controller's emit calls in progress, the innermost first
  calls,         \* the number of controller calls that have emitted
  sawNr,         \* sawNr[cb]: the number of the call whose state cb was given last
  patched,       \* the latest applyPatches call: its patches, and those that matched nothing
  blocks,        \* the block list of a document body
  lease,         \* the active lease of the document body
  now,           \* the clock
  verdict        \* the latest validateLease call and its result

progVars == <<elements, appState, files, selectedIds, actions, historyState, groupCounter>>
vars == <<elements, appState, files, selectedIds, actions, historyState, groupCounter,
          last, pre, phase, played, distinct,
          listeners, engineListeners, heard, twin, limit,
          emission, invoked, cancelled,
          frames, calls, sawNr,
          patched, blocks, lease, now, verdict>>

emitterVars == <<emission, invoked, cancelled>>

nestVars == <<frames, calls, sawNr>>

bodyVars == <<blocks, lease, now, verdict>>

State ==
  [elements |-> elements, appState |-> appState, files |-> files,
   selectedIds |-> selectedIds, actions |-> actions,
   historyState |-> historyState, groupCounter |-> groupCounter]

----------------------------------------------------------------------------
\* default-engine.ts

Engine_getSnapshot(s) ==
  [elements |-> s.elements, appState |-> s.appState, files |-> s.files]

Engine_loadSnapshotNoFiles(s, snapshot) ==
  [s EXCEPT !.elements = snapshot.elements,
            !.appState = snapshot.appState]

Engine_loadSnapshot(s, snapshot) ==
  [s EXCEPT !.elements = snapshot.elements,
            !.appState = snapshot.appState,
            !.files = snapshot.files]

\* 0 stands for the code's -1
Engine_findIndex(s, id) ==
  IF \E i \in 1..Len(s.elements) : s.elements[i].id = id
  THEN CHOOSE i \in 1..Len(s.elements) :
         /\ s.elements[i].id = id
         /\ \A j \in 1..(i - 1) : s.elements[j].id # id
  ELSE 0

\* What emitElementsChange and emitSelectionChange hand to each subscriber.
Engine_emitElementsChange(s) == [kind |-> "onElementsChange", value |-> s.elements]

Engine_emitSelectionChange(s) == [kind |-> "onSelectionChange", value |-> s.selectedIds]

\* events: the emissions the call makes, in order.
Engine_addElement(s, element) ==
  LET done == [s EXCEPT !.elements = Append(s.elements, element)] IN
  [state  |-> done,
   found  |-> TRUE,
   ret    |-> element,
   events |-> <<Engine_emitElementsChange(done)>>]

Engine_updateElementNoPin(s, elementId, patch) ==
  LET idx == Engine_findIndex(s, elementId) IN
  IF idx = 0 THEN [state |-> s, found |-> FALSE, ret |-> EmptyObject, events |-> << >>]
  ELSE LET before == s.elements[idx]
           done   == [s EXCEPT !.elements[idx] = Spread(before, patch)]
       IN [state  |-> done,
           found  |-> TRUE,
           ret    |-> before,
           events |-> <<Engine_emitElementsChange(done)>>]

Engine_updateElement(s, elementId, patch) ==
  LET idx == Engine_findIndex(s, elementId) IN
  IF idx = 0 THEN [state |-> s, found |-> FALSE, ret |-> EmptyObject, events |-> << >>]
  ELSE LET before == s.elements[idx]
           done   == [s EXCEPT !.elements[idx] =
                        Spread(Spread(before, patch), [id |-> before.id])]
       IN [state  |-> done,
           found  |-> TRUE,
           ret    |-> before,
           events |-> <<Engine_emitElementsChange(done)>>]

Engine_deleteElementEmitsFirst(s, elementId) ==
  LET idx == Engine_findIndex(s, elementId) IN
  IF idx = 0 THEN [state |-> s, found |-> FALSE, ret |-> EmptyObject, events |-> << >>]
  ELSE LET done == [s EXCEPT !.elements = Splice(s.elements, idx),
                             !.selectedIds = s.selectedIds \ {elementId}]
       IN [state  |-> done,
           found  |-> TRUE,
           ret    |-> s.elements[idx],
           events |-> <<Engine_emitElementsChange(s)>>]

Engine_deleteElement(s, elementId) ==
  LET idx == Engine_findIndex(s, elementId) IN
  IF idx = 0 THEN [state |-> s, found |-> FALSE, ret |-> EmptyObject, events |-> << >>]
  ELSE LET done == [s EXCEPT !.elements = Splice(s.elements, idx),
                             !.selectedIds = s.selectedIds \ {elementId}]
       IN [state  |-> done,
           found  |-> TRUE,
           ret    |-> s.elements[idx],
           events |-> <<Engine_emitElementsChange(done)>>]

Engine_setAppStateReturnsMerged(s, patch) ==
  [state  |-> [s EXCEPT !.appState = Spread(s.appState, patch)],
   found  |-> TRUE,
   ret    |-> Spread(s.appState, patch),
   events |-> << >>]

Engine_setAppState(s, patch) ==
  [state  |-> [s EXCEPT !.appState = Spread(s.appState, patch)],
   found  |-> TRUE,
   ret    |-> s.appState,
   events |-> << >>]

Engine_upsertFiles(s, fileMap) ==
  [s EXCEPT !.files = Spread(s.files, fileMap)]

Engine_setSelection(s, ids) ==
  [s EXCEPT !.selectedIds = ids]

----------------------------------------------------------------------------
\* action-recorder.ts

Recorder_recordNoTruncate(s, forward, inverse) ==
  LET action == [drawingId      |-> DrawingIdValue,
                 historyGroupId |-> s.groupCounter + 1,
                 forward        |-> forward,
                 inverse        |-> inverse,
                 timestamp      |-> s.groupCounter + 1]
  IN [s EXCEPT !.actions = Append(s.actions, action),
               !.historyState = advanceHistory(s.historyState),
               !.groupCounter = s.groupCounter + 1]

Recorder_record(s, forward, inverse) ==
  LET kept   == Slice(s.actions, s.historyState.undoCursor + 1)
      action == [drawingId      |-> DrawingIdValue,
                 historyGroupId |-> s.groupCounter + 1,
                 forward        |-> forward,
                 inverse        |-> inverse,
                 timestamp      |-> s.groupCounter + 1]
  IN [s EXCEPT !.actions = Append(kept, action),
               !.historyState = advanceHistory(s.historyState),
               !.groupCounter = s.groupCounter + 1]

\* actions[i] of the code is defined
HasAction(s, i) == i >= 0 /\ i < Len(s.actions)

Recorder_undoPops(s) ==
  IF ~canUndo(s.historyState) THEN [state |-> s, ok |-> FALSE, patches |-> << >>]
  ELSE IF ~HasAction(s, s.historyState.undoCursor)
       THEN [state |-> s, ok |-> FALSE, patches |-> << >>]
  ELSE [state   |-> [s EXCEPT !.historyState = undoHistoryState(s.historyState),
                              !.actions = Slice(s.actions, s.historyState.undoCursor)],
        ok      |-> TRUE,
        patches |-> s.actions[s.historyState.undoCursor + 1].inverse]

Recorder_undo(s) ==
  IF ~canUndo(s.historyState) THEN [state |-> s, ok |-> FALSE, patches |-> << >>]
  ELSE IF ~HasAction(s, s.historyState.undoCursor)
       THEN [state |-> s, ok |-> FALSE, patches |-> << >>]
  ELSE [state   |-> [s EXCEPT !.historyState = undoHistoryState(s.historyState)],
        ok      |-> TRUE,
        patches |-> s.actions[s.historyState.undoCursor + 1].inverse]

Recorder_redoUnchecked(s) ==
  IF ~canRedo(s.historyState) THEN [state |-> s, ok |-> FALSE, patches |-> << >>]
  ELSE [state   |-> [s EXCEPT !.historyState = redoHistoryState(s.historyState)],
        ok      |-> TRUE,
        patches |-> IF HasAction(s, s.historyState.undoCursor + 1)
                    THEN s.actions[s.historyState.undoCursor + 2].forward
                    ELSE << >>]

Recorder_redo(s) ==
  IF ~canRedo(s.historyState) THEN [state |-> s, ok |-> FALSE, patches |-> << >>]
  ELSE IF ~HasAction(s, s.historyState.undoCursor + 1)
       THEN [state |-> s, ok |-> FALSE, patches |-> << >>]
  ELSE [state   |-> [s EXCEPT !.historyState = redoHistoryState(s.historyState)],
        ok      |-> TRUE,
        patches |-> s.actions[s.historyState.undoCursor + 2].forward]

Recorder_loadKeepHistory(s, loadedActions, loadedHistoryState) ==
  [s EXCEPT !.actions = loadedActions]

Recorder_load(s, loadedActions, loadedHistoryState) ==
  [s EXCEPT !.actions = loadedActions, !.historyState = loadedHistoryState]

Recorder_getState(s) ==
  [historyState |-> s.historyState,
   actions      |-> s.actions,
   canUndo      |-> canUndo(s.historyState),
   canRedo      |-> canRedo(s.historyState)]

----------------------------------------------------------------------------
\* emitter.ts. The listeners array holds the registered callbacks in the
\* order of their registration.

Emitter_on(ls, cb) == Append(ls, cb)

\* the unsubscribe function that on(cb) returned
Emitter_off(ls, cb) == SelectSeq(ls, LAMBDA l : l # cb)

Emitter_emitFirstOnly(ls, kind, value) ==
  [i \in 1..(IF Len(ls) > 0 THEN 1 ELSE 0) |->
     [to |-> ls[i], kind |-> kind, value |-> value]]

\* the calls emit(value) makes, in order
Emitter_emit(ls, kind, value) ==
  [i \in 1..Len(ls) |-> [to |-> ls[i], kind |-> kind, value |-> value]]

\* The loop of emit, one callback at a time. The for-of loop walks the array
\* object that this.listeners held when emit was called, up to the length the
\* array has when the loop looks. on pushes onto the array that
\* this.listeners holds; an unsubscribe function assigns a new array to
\* this.listeners and leaves the old one alone. `shared` says that the array
\* of the loop is still the array of this.listeners, `running` that emit has
\* not returned.
Emitter_begin(ls, value) ==
  [array |-> ls, index |-> 1, value |-> value, shared |-> TRUE, running |-> TRUE]

Emitter_done(em) == em.index > Len(em.array)

Emitter_current(em) == em.array[em.index]

Emitter_advanceSkip(em) == [em EXCEPT !.index = em.index + 2]

Emitter_advance(em) == [em EXCEPT !.index = em.index + 1]

\* this.listeners.push(cb), seen from the loop
Emitter_pushed(em, cb) ==
  IF em.running /\ em.shared THEN [em EXCEPT !.array = Append(em.array, cb)] ELSE em

\* this.listeners = this.listeners.filter(...), seen from the loop
Emitter_reassigned(em) == [em EXCEPT !.shared = FALSE]

\* the loop has ended and emit returns
Emitter_return(em) == [em EXCEPT !.running = FALSE]

\* no emit call in progress
Emitter_idle ==
  [array |-> << >>, index |-> 1, value |-> "none", shared |-> FALSE, running |-> FALSE]

----------------------------------------------------------------------------
\* controller.ts. Each operation yields the state it leaves, ok: whether it
\* took effect (an action was recorded; undo/redo returned true), and events:
\* the emissions of the engine and of the controller's emitter, in order.

extractReversePatchFull(original, patch) == original

extractReversePatch(original, patch) ==
  [key \in DOMAIN patch |-> Get(original, key)]

Controller_getState(s) ==
  [drawingId |-> DrawingIdValue] @@ Recorder_getState(s)

Controller_getSnapshot(s) == Engine_getSnapshot(s)

Controller_rebuildFromPatches(s, patches) ==
  LET snap    == Engine_getSnapshot(s)
      scene   == [drawingId |-> DrawingIdValue, elements |-> snap.elements,
                  appState |-> snap.appState, files |-> snap.files]
      updated == applyPatches(scene, patches)
  IN Engine_loadSnapshot(s, [elements |-> updated.elements,
                             appState |-> updated.appState,
                             files    |-> updated.files])

\* this.emitter.emit(this.getState())
Controller_emit(s) == [kind |-> "onChange", value |-> Controller_getState(s)]

Controller_loadScene(s, scene, loadedActions, loadedHistoryState) ==
  LET loaded == Engine_loadSnapshot(s, [elements |-> scene.elements,
                                        appState |-> scene.appState,
                                        files    |-> scene.files])
      done   == Recorder_load(loaded, loadedActions, loadedHistoryState)
  IN [state  |-> done,
      ok     |-> TRUE,
      events |-> <<Engine_emitElementsChange(loaded), Controller_emit(done)>>]

Controller_addElement(s, element) ==
  LET r    == Engine_addElement(s, element)
      done == Recorder_record(r.state,
                <<[type |-> "add_element", element |-> r.ret]>>,
                <<[type |-> "delete_element", elementId |-> r.ret.id]>>)
  IN [state |-> done, ok |-> TRUE, events |-> r.events \o <<Controller_emit(done)>>]

Controller_updateElement(s, elementId, patch) ==
  LET r == Engine_updateElement(s, elementId, patch) IN
  IF ~r.found THEN [state |-> s, ok |-> FALSE, events |-> r.events]
  ELSE LET done == Recorder_record(r.state,
                     <<[type |-> "update_element", elementId |-> elementId,
                        patch |-> patch]>>,
                     <<[type |-> "update_element", elementId |-> elementId,
                        patch |-> extractReversePatch(r.ret, patch)]>>)
       IN [state |-> done, ok |-> TRUE, events |-> r.events \o <<Controller_emit(done)>>]

Controller_deleteElementVacuous(s, elementId) ==
  LET r    == Engine_deleteElement(s, elementId)
      done == Recorder_record(r.state,
                <<[type |-> "delete_element", elementId |-> elementId]>>,
                << >>)
  IN [state |-> done, ok |-> r.found, events |-> r.events \o <<Controller_emit(done)>>]

Controller_deleteElement(s, elementId) ==
  LET r == Engine_deleteElement(s, elementId) IN
  IF ~r.found THEN [state |-> s, ok |-> FALSE, events |-> r.events]
  ELSE LET done == Recorder_record(r.state,
                     <<[type |-> "delete_element", elementId |-> elementId]>>,
                     <<[type |-> "add_element", element |-> r.ret]>>)
       IN [state |-> done, ok |-> TRUE, events |-> r.events \o <<Controller_emit(done)>>]

Controller_setAppState(s, patch) ==
  LET r    == Engine_setAppState(s, patch)
      done == Recorder_record(r.state,
                <<[type |-> "set_app_state", patch |-> patch]>>,
                <<[type |-> "set_app_state",
                   patch |-> extractReversePatch(r.ret, patch)]>>)
  IN [state |-> done, ok |-> TRUE, events |-> r.events \o <<Controller_emit(done)>>]

Controller_upsertFiles(s, fileMap) ==
  LET done == Recorder_record(Engine_upsertFiles(s, fileMap),
                <<[type |-> "upsert_files", files |-> fileMap]>>,
                <<[type |-> "upsert_files", files |-> EmptyObject]>>)
  IN [state |-> done, ok |-> TRUE, events |-> <<Controller_emit(done)>>]

Controller_setSelectionRecorded(s, ids) ==
  LET done == Recorder_record(Engine_setSelection(s, ids), << >>, << >>)
  IN [state |-> done, ok |-> TRUE, events |-> <<Engine_emitSelectionChange(done)>>]

Controller_setSelection(s, ids) ==
  LET done == Engine_setSelection(s, ids)
  IN [state |-> done, ok |-> TRUE, events |-> <<Engine_emitSelectionChange(done)>>]

Controller_undoEmitsAlways(s) ==
  LET r == Recorder_undo(s) IN
  IF ~r.ok THEN [state |-> s, ok |-> FALSE, events |-> <<Controller_emit(s)>>]
  ELSE LET done == Controller_rebuildFromPatches(r.state, r.patches)
       IN [state  |-> done,
           ok     |-> TRUE,
           events |-> <<Engine_emitElementsChange(done), Controller_emit(done)>>]

\* the loadSnapshot at the end of rebuildFromPatches emits onElementsChange
Controller_undo(s) ==
  LET r == Recorder_undo(s) IN
  IF ~r.ok THEN [state |-> s, ok |-> FALSE, events |-> << >>]
  ELSE LET done == Controller_rebuildFromPatches(r.state, r.patches)
       IN [state  |-> done,
           ok     |-> TRUE,
           events |-> <<Engine_emitElementsChange(done), Controller_emit(done)>>]

Controller_redoEmitsStale(s) ==
  LET r == Recorder_redo(s) IN
  IF ~r.ok THEN [state |-> s, ok |-> FALSE, events |-> << >>]
  ELSE LET done == Controller_rebuildFromPatches(r.state, r.patches)
       IN [state  |-> done,
           ok     |-> TRUE,
           events |-> <<Engine_emitElementsChange(done), Controller_emit(s)>>]

Controller_redo(s) ==
  LET r == Recorder_redo(s) IN
  IF ~r.ok THEN [state |-> s, ok |-> FALSE, events |-> << >>]
  ELSE LET done == Controller_rebuildFromPatches(r.state, r.patches)
       IN [state  |-> done,
           ok     |-> TRUE,
           events |-> <<Engine_emitElementsChange(done), Controller_emit(done)>>]

----------------------------------------------------------------------------
\* Bookkeeping of the calls made so far (history variables).

MutatingOps == {"addElement", "updateElement", "deleteElement", "setAppState", "upsertFiles"}

Call(op, id, arg) == [op |-> op, id |-> id, arg |-> arg]

SameCall(a, b) == a.op = b.op /\ a.id = b.id /\ a.arg = b.arg

ScenarioA ==
  <<Call("addElement", "r1", makeElement("r1")),
    Call("updateElement", "r1", [x |-> "50"]),
    Call("deleteElement", "r1", EmptyObject),
    Call("undo", "", EmptyObject), Call("undo", "", EmptyObject),
    Call("undo", "", EmptyObject),
    Call("redo", "", EmptyObject), Call("redo", "", EmptyObject),
    Call("redo", "", EmptyObject)>>

ScenarioB ==
  <<Call("addElement", "e1", makeElement("e1")),
    Call("addElement", "e2", makeElement("e2")),
    Call("undo", "", EmptyObject),
    Call("addElement", "e3", makeElement("e3")),
    Call("redo", "", EmptyObject)>>

ScenarioC ==
  <<Call("upsertFiles", "", [f1 |-> FileA]),
    Call("undo", "", EmptyObject)>>

Scenario(name) ==
  CASE name = "A" -> ScenarioA
    [] name = "B" -> ScenarioB
    [] name = "C" -> ScenarioC
    [] OTHER -> << >>

Off == [scn |-> "off", n |-> 0]

\* The scenario position after one more call: a behaviour follows a scenario
\* as long as its calls, from the fresh controller on, are the scenario's.
NextPlayed(p, call) ==
  IF p.scn = "start"
  THEN IF \E name \in {"A", "B", "C"} : SameCall(Scenario(name)[1], call)
       THEN [scn |-> CHOOSE name \in {"A", "B", "C"} : SameCall(Scenario(name)[1], call),
             n |-> 1]
       ELSE Off
  ELSE IF /\ p.n < Len(Scenario(p.scn))
          /\ SameCall(Scenario(p.scn)[p.n + 1], call)
       THEN [scn |-> p.scn, n |-> p.n + 1]
       ELSE Off

\* ops: the recorded operations made in a row; undos: the undos made right
\* after them, at most as many. A call that changed nothing does not count.
NextPhase(ph, op, ok) ==
  IF ~ok THEN ph
  ELSE IF op \in MutatingOps
       THEN [ops |-> IF ph.undos = 0 THEN ph.ops + 1 ELSE 1, undos |-> 0]
  ELSE IF op = "undo" /\ ph.undos < ph.ops
       THEN [ops |-> ph.ops, undos |-> ph.undos + 1]
  ELSE [ops |-> 0, undos |-> 0]

\* The call op on state s left result r.
NextLast(s, op, r) ==
  IF ~r.ok THEN last
  ELSE [op |-> op,
        dropped |-> IF op \in MutatingOps
                    THEN Len(s.actions) + 1 - Len(r.state.actions)
                    ELSE 0]

NoDuplicateIds(els) ==
  \A i, j \in 1..Len(els) : els[i].id = els[j].id => i = j

NextPre(s, op, ok) ==
  IF ok /\ op \in MutatingOps
  THEN Append(Slice(pre, s.historyState.undoCursor + 1), Engine_getSnapshot(s))
  ELSE pre

\* The calls the emissions of one operation make, in order: every onChange
\* listener for an emission of the controller, every engine subscriber for an
\* emission of the engine.
RECURSIVE Deliver(_, _, _)
Deliver(ls, els, events) ==
  IF events = << >> THEN << >>
  ELSE LET e == Head(events) IN
       (IF e.kind = "onChange"
        THEN Emitter_emit(ls, e.kind, e.value)
        ELSE Emitter_emit(els, e.kind, e.value))
       \o Deliver(ls, els, Tail(events))

Quiet == [op |-> "none", ok |-> FALSE, to |-> << >>]

Listening == listeners # << >> \/ engineListeners # << >>

NextHeard(op, r) ==
  IF Listening
  THEN [op |-> op, ok |-> r.ok, to |-> Deliver(listeners, engineListeners, r.events)]
  ELSE Quiet

None == [none |-> TRUE]

\* a controller that has just been constructed on a fresh engine
FreshState ==
  [elements |-> << >>, appState |-> EmptyObject, files |-> EmptyObject,
   selectedIds |-> {}, actions |-> << >>,
   historyState |-> createInitialHistoryState, groupCounter |-> 0]

\* the call made on a controller in state s
Perform(s, call) ==
  CASE call.op = "addElement" -> Controller_addElement(s, call.arg)
    [] call.op = "updateElement" -> Controller_updateElement(s, call.id, call.arg)
    [] call.op = "deleteElement" -> Controller_deleteElement(s, call.id)
    [] call.op = "setAppState" -> Controller_setAppState(s, call.arg)
    [] call.op = "upsertFiles" -> Controller_upsertFiles(s, call.arg)
    [] call.op = "undo" -> Controller_undo(s)
    [] call.op = "redo" -> Controller_redo(s)
    [] call.op = "loadScene" ->
         Controller_loadScene(s, call.arg.scene, call.arg.actions, call.arg.historyState)
    [] OTHER -> [state |-> s, ok |-> FALSE, events |-> << >>]

----------------------------------------------------------------------------
\* The controller's life: a fresh controller on a fresh engine, then any calls.

Fresh ==
  /\ elements = << >>
  /\ appState = EmptyObject
  /\ files = EmptyObject
  /\ selectedIds = {}
  /\ actions = << >>
  /\ historyState = createInitialHistoryState
  /\ groupCounter = 0
  /\ last = [op |-> "new", dropped |-> 0]
  /\ pre = << >>
  /\ phase = [ops |-> 0, undos |-> 0]
  /\ played = [scn |-> "start", n |-> 0]
  /\ distinct = TRUE
  /\ listeners = << >>
  /\ engineListeners = << >>
  /\ heard = Quiet
  /\ twin = None
  /\ emission = Emitter_idle
  /\ invoked = << >>
  /\ cancelled = {}
  /\ frames = << >>
  /\ calls = 0
  /\ sawNr = [cb \in ChangeListeners |-> 0]
  /\ patched = [patches |-> 0, unmatched |-> 0]
  /\ blocks = << >>
  /\ lease = None
  /\ now = 0
  /\ verdict = None

Init == Fresh /\ limit = MaxRecords

InitListening == Fresh /\ limit = MaxHeardRecords

InitTwin == Fresh /\ limit = MaxTwinRecords

\* The call leaves result r.
Step(call, r) ==
  /\ r.state.groupCounter <= limit
  /\ elements' = r.state.elements
  /\ appState' = r.state.appState
  /\ files' = r.state.files
  /\ selectedIds' = r.state.selectedIds
  /\ actions' = r.state.actions
  /\ historyState' = r.state.historyState
  /\ groupCounter' = r.state.groupCounter
  /\ last' = NextLast(State, call.op, r)
  /\ pre' = NextPre(State, call.op, r.ok)
  /\ phase' = NextPhase(phase, call.op, r.ok)
  /\ played' = NextPlayed(played, call)
  /\ distinct' = (distinct /\ NoDuplicateIds(r.state.elements))
  /\ heard' = NextHeard(call.op, r)
  /\ twin' = IF twin = None THEN None ELSE Perform(twin, call).state
  /\ UNCHANGED <<listeners, engineListeners, limit>>
  /\ UNCHANGED emitterVars
  /\ UNCHANGED nestVars
  /\ UNCHANGED patched
  /\ UNCHANGED bodyVars

AddElement ==
  \E element \in NewElements :
    Step(Call("addElement", element.id, element), Controller_addElement(State, element))

UpdateElement ==
  \E elementId \in ElementIds, patch \in ElementPatches :
    Step(Call("updateElement", elementId, patch),
         Controller_updateElement(State, elementId, patch))

DeleteElement ==
  \E elementId \in ElementIds :
    Step(Call("deleteElement", elementId, EmptyObject),
         Controller_deleteElement(State, elementId))

SetAppState ==
  \E patch \in AppStatePatches :
    Step(Call("setAppState", "", patch), Controller_setAppState(State, patch))

UpsertFiles ==
  \E fileMap \in FileMaps :
    Step(Call("upsertFiles", "", fileMap), Controller_upsertFiles(State, fileMap))

SetSelection ==
  \E ids \in SelectionSets :
    Step(Call("setSelection", "", EmptyObject), Controller_setSelection(State, ids))

Undo == Step(Call("undo", "", EmptyObject), Controller_undo(State))

Redo == Step(Call("redo", "", EmptyObject), Controller_redo(State))

LoadScene ==
  \E input \in LoadInputs :
    Step(Call("loadScene", "", input),
         Controller_loadScene(State, input.scene, input.actions, input.historyState))

\* onChange(cb), for a callback that is not registered
OnChange ==
  \E cb \in ChangeListeners :
    /\ \A i \in 1..Len(listeners) : listeners[i] # cb
    /\ listeners' = Emitter_on(listeners, cb)
    /\ heard' = Quiet
    /\ UNCHANGED nestVars
    /\ UNCHANGED patched
    /\ UNCHANGED bodyVars
    /\ UNCHANGED <<elements, appState, files, selectedIds, actions, historyState,
                   groupCounter, last, pre, phase, played, distinct,
                   engineListeners, twin, limit, emission, invoked, cancelled>>

\* the function that onChange(cb) returned
Unsubscribe ==
  \E cb \in ChangeListeners :
    /\ \E i \in 1..Len(listeners) : listeners[i] = cb
    /\ listeners' = Emitter_off(listeners, cb)
    /\ heard' = Quiet
    /\ UNCHANGED nestVars
    /\ UNCHANGED patched
    /\ UNCHANGED bodyVars
    /\ UNCHANGED <<elements, appState, files, selectedIds, actions, historyState,
                   groupCounter, last, pre, phase, played, distinct,
                   engineListeners, twin, limit, emission, invoked, cancelled>>

\* engine.subscribe(events), for a subscriber that is not registered
EngineSubscribe ==
  \E sub \in EngineSubscribers :
    /\ \A i \in 1..Len(engineListeners) : engineListeners[i] # sub
    /\ engineListeners' = Append(engineListeners, sub)
    /\ heard' = Quiet
    /\ UNCHANGED nestVars
    /\ UNCHANGED patched
    /\ UNCHANGED bodyVars
    /\ UNCHANGED <<elements, appState, files, selectedIds, actions, historyState,
                   groupCounter, last, pre, phase, played, distinct,
                   listeners, twin, limit, emission, invoked, cancelled>>

\* the function that engine.subscribe(events) returned
EngineUnsubscribe ==
  \E sub \in EngineSubscribers :
    /\ \E i \in 1..Len(engineListeners) : engineListeners[i] = sub
    /\ engineListeners' = SelectSeq(engineListeners, LAMBDA l : l # sub)
    /\ heard' = Quiet
    /\ UNCHANGED nestVars
    /\ UNCHANGED patched
    /\ UNCHANGED bodyVars
    /\ UNCHANGED <<elements, appState, files, selectedIds, actions, historyState,
                   groupCounter, last, pre, phase, played, distinct,
                   listeners, twin, limit, emission, invoked, cancelled>>

\* A second controller, on a fresh engine, is given this controller's
\* snapshot, log and history state through loadScene.
Restore ==
  /\ twin = None
  /\ twin' = Controller_loadScene(FreshState,
                [drawingId |-> DrawingIdValue,
                 elements  |-> Controller_getSnapshot(State).elements,
                 appState  |-> Controller_getSnapshot(State).appState,
                 files     |-> Controller_getSnapshot(State).files],
                Controller_getState(State).actions,
                Controller_getState(State).historyState).state
  /\ UNCHANGED nestVars
  /\ UNCHANGED patched
  /\ UNCHANGED bodyVars
  /\ UNCHANGED <<elements, appState, files, selectedIds, actions, historyState,
                 groupCounter, last, pre, phase, played, distinct,
                 listeners, engineListeners, heard, limit,
                 emission, invoked, cancelled>>

Next ==
  \/ AddElement
  \/ UpdateElement
  \/ DeleteElement
  \/ SetAppState
  \/ UpsertFiles
  \/ Undo
  \/ Redo

\* Every sequence of addElement, updateElement, deleteElement, setAppState,
\* upsertFiles, undo and redo calls on a fresh controller.
Spec == Init /\ [][Next]_vars

\* The emitter with callbacks that register and unsubscribe callbacks while
\* an emit call is in progress. A callback may be registered more than once.
\* While emit is in progress, on and the unsubscribe functions are called by
\* the callback that was called last.
InCallback == ~emission.running \/ invoked # << >>

Registered(cb) == \E i \in 1..Len(listeners) : listeners[i] = cb

EmitterOn ==
  \E cb \in ChangeListeners :
    /\ InCallback
    /\ Len(listeners) < MaxRegistrations
    /\ listeners' = Emitter_on(listeners, cb)
    /\ emission' = Emitter_pushed(emission, cb)
    /\ cancelled' = cancelled \ {cb}
    /\ UNCHANGED nestVars
    /\ UNCHANGED patched
    /\ UNCHANGED bodyVars
    /\ UNCHANGED <<elements, appState, files, selectedIds, actions, historyState,
                   groupCounter, last, pre, phase, played, distinct,
                   engineListeners, heard, twin, limit, invoked>>

\* the function that an on(cb) call returned
EmitterOff ==
  \E cb \in ChangeListeners :
    /\ InCallback
    /\ Registered(cb) \/ cb \in cancelled
    /\ listeners' = Emitter_off(listeners, cb)
    /\ emission' = Emitter_reassigned(emission)
    /\ cancelled' = cancelled \cup {cb}
    /\ UNCHANGED nestVars
    /\ UNCHANGED patched
    /\ UNCHANGED bodyVars
    /\ UNCHANGED <<elements, appState, files, selectedIds, actions, historyState,
                   groupCounter, last, pre, phase, played, distinct,
                   engineListeners, heard, twin, limit, invoked>>

\* emit(value) is called
EmitterEmit ==
  \E value \in EmitValues :
    /\ ~emission.running
    /\ emission' = Emitter_begin(listeners, value)
    /\ invoked' = << >>
    /\ UNCHANGED nestVars
    /\ UNCHANGED patched
    /\ UNCHANGED bodyVars
    /\ UNCHANGED <<elements, appState, files, selectedIds, actions, historyState,
                   groupCounter, last, pre, phase, played, distinct,
                   listeners, engineListeners, heard, twin, limit, cancelled>>

\* the loop of emit calls the next callback
EmitterInvoke ==
  /\ emission.running
  /\ ~Emitter_done(emission)
  /\ invoked' = Append(invoked, Emitter_current(emission))
  /\ emission' = Emitter_advance(emission)
  /\ UNCHANGED nestVars
  /\ UNCHANGED patched
  /\ UNCHANGED bodyVars
  /\ UNCHANGED <<elements, appState, files, selectedIds, actions, historyState,
                 groupCounter, last, pre, phase, played, distinct,
                 listeners, engineListeners, heard, twin, limit, cancelled>>

\* the loop of emit finds no further callback and emit returns
EmitterReturn ==
  /\ emission.running
  /\ Emitter_done(emission)
  /\ emission' = Emitter_return(emission)
  /\ UNCHANGED nestVars
  /\ UNCHANGED patched
  /\ UNCHANGED bodyVars
  /\ UNCHANGED <<elements, appState, files, selectedIds, actions, historyState,
                 groupCounter, last, pre, phase, played, distinct,
                 listeners, engineListeners, heard, twin, limit, invoked, cancelled>>

NextEmitter ==
  \/ EmitterOn
  \/ EmitterOff
  \/ EmitterEmit
  \/ EmitterInvoke
  \/ EmitterReturn

SpecEmitter == InitListening /\ [][NextEmitter]_vars

NextSelection ==
  \/ Next
  \/ SetSelection
  \/ OnChange
  \/ Unsubscribe

\* The same with setSelection calls among them, while onChange listeners
\* come and go.
SpecSelection == InitListening /\ [][NextSelection]_vars

NextListening ==
  \/ Next
  \/ LoadScene
  \/ OnChange
  \/ Unsubscribe
  \/ EngineSubscribe
  \/ EngineUnsubscribe

\* The same with loadScene calls among them, while onChange listeners and
\* engine subscribers come and go.
SpecListeners == InitListening /\ [][NextListening]_vars

NextLog ==
  \/ Next
  \/ SetSelection
  \/ LoadScene

\* The same with setSelection and loadScene calls among them.
SpecLog == InitListening /\ [][NextLog]_vars

NextReload ==
  \/ Next
  \/ OnChange
  \/ EngineSubscribe

\* The calls of Next while onChange listeners and engine subscribers register.
SpecReload == InitListening /\ [][NextReload]_vars

\* The same calls made on this controller and on a second one restored from it.
SpecTwin == InitTwin /\ [][Next \/ Restore]_vars

----------------------------------------------------------------------------
\* Abbreviations for the properties.

Snapshot == Engine_getSnapshot(State)

Recorded == last.op \in MutatingOps


RecordStep == groupCounter' = groupCounter + 1

\* the first n entries of seq, all of them when it has fewer
Prefix(seq, n) == SubSeq(seq, 1, IF n > Len(seq) THEN Len(seq) ELSE n)

At(scn, n) == played = [scn |-> scn, n |-> n]

\* obj without the keys whose value is undefined
Defined(obj) == [k \in {key \in DOMAIN obj : obj[key] # Undefined} |-> obj[k]]

DefinedElements(els) == [i \in DOMAIN els |-> Defined(els[i])]

\* the calls to onChange listeners among the calls to listeners, and the
\* emissions of the controller among the emissions
OnChangeOnly(seq) == SelectSeq(seq, LAMBDA d : d.kind = "onChange")

\* every call the callers make, setSelection aside
Calls ==
  {Call("addElement", element.id, element) : element \in NewElements}
    \cup {Call("updateElement", c[1], c[2]) : c \in ElementIds \X ElementPatches}
    \cup {Call("deleteElement", elementId, EmptyObject) : elementId \in ElementIds}
    \cup {Call("setAppState", "", patch) : patch \in AppStatePatches}
    \cup {Call("upsertFiles", "", fileMap) : fileMap \in FileMaps}
    \cup {Call("loadScene", "", input) : input \in LoadInputs}
    \cup {Call("undo", "", EmptyObject), Call("redo", "", EmptyObject)}

\* The engine on its own, called directly, with subscribers. The call leaves
\* the engine in state done; found says that it took effect, events are
\* its emissions.
EngineStep(op, done, found, events) ==
  /\ Len(done.elements) <= MaxElements
  /\ elements' = done.elements
  /\ appState' = done.appState
  /\ files' = done.files
  /\ selectedIds' = done.selectedIds
  /\ distinct' = (distinct /\ NoDuplicateIds(done.elements))
  /\ heard' = [op |-> op, ok |-> found,
               to |-> Deliver(<< >>, engineListeners, events)]
  /\ UNCHANGED <<actions, historyState, groupCounter, last, pre, phase, played,
                 listeners, engineListeners, twin, limit>>
  /\ UNCHANGED emitterVars
  /\ UNCHANGED nestVars
  /\ UNCHANGED patched
  /\ UNCHANGED bodyVars

EngineAddElement ==
  \E element \in NewElements :
    LET r == Engine_addElement(State, element)
    IN EngineStep("addElement", r.state, r.found, r.events)

EngineUpdateElement ==
  \E elementId \in ElementIds, patch \in ElementPatches :
    LET r == Engine_updateElement(State, elementId, patch)
    IN EngineStep("updateElement", r.state, r.found, r.events)

EngineDeleteElement ==
  \E elementId \in ElementIds :
    LET r == Engine_deleteElement(State, elementId)
    IN EngineStep("deleteElement", r.state, r.found, r.events)

EngineSetAppState ==
  \E patch \in AppStatePatches :
    LET r == Engine_setAppState(State, patch)
    IN EngineStep("setAppState", r.state, r.found, r.events)

EngineLoadSnapshot ==
  \E input \in LoadInputs :
    LET done == Engine_loadSnapshot(State, [elements |-> input.scene.elements,
                                            appState |-> input.scene.appState,
                                            files    |-> input.scene.files])
    IN EngineStep("loadSnapshot", done, TRUE, <<Engine_emitElementsChange(done)>>)

EngineSetSelection ==
  \E ids \in SelectionSets :
    LET done == Engine_setSelection(State, ids)
    IN EngineStep("setSelection", done, TRUE, <<Engine_emitSelectionChange(done)>>)

\* engine.subscribe(events)
EngineSubscribeEvents ==
  \E events \in EngineEvents :
    /\ Len(engineListeners) < MaxRegistrations
    /\ \A i \in 1..Len(engineListeners) : engineListeners[i] # events
    /\ engineListeners' = Append(engineListeners, events)
    /\ heard' = Quiet
    /\ UNCHANGED <<progVars, last, pre, phase, played, distinct,
                   listeners, twin, limit>>
    /\ UNCHANGED emitterVars
    /\ UNCHANGED nestVars
    /\ UNCHANGED patched
    /\ UNCHANGED bodyVars

NextEngine ==
  \/ EngineAddElement /\ Len(elements) < MaxHeardElements
  \/ EngineUpdateElement
  \/ EngineDeleteElement
  \/ EngineLoadSnapshot
  \/ EngineSetSelection
  \/ EngineSubscribeEvents

\* Calls that reach the subscribers, with subscribers registering.
SpecEngine == InitListening /\ [][NextEngine]_vars

NextEngineState ==
  \/ EngineAddElement
  \/ EngineUpdateElement
  \/ EngineDeleteElement
  \/ EngineSetAppState

\* Calls that change the elements and the appState, without subscribers.
SpecEngineState == InitListening /\ [][NextEngineState]_vars

\* The patch applier on its own: applyPatches called on the scene, the
\* scene it returns taking the place of the scene.
Scene ==
  [drawingId |-> DrawingIdValue, elements |-> elements,
   appState |-> appState, files |-> files]

\* a patch that apply.ts does not know, or that names an element that the
\* elements do not hold
Unmatched(els, patch) ==
  \/ patch.type \notin {"add_element", "update_element", "delete_element",
                        "set_app_state", "upsert_files"}
  \/ /\ patch.type \in {"update_element", "delete_element"}
     /\ \A i \in 1..Len(els) : els[i].id # patch.elementId

\* the patches of the list that are unmatched when their turn comes
RECURSIVE CountUnmatched(_, _)
CountUnmatched(els, patches) ==
  IF patches = << >> THEN 0
  ELSE (IF Unmatched(els, Head(patches)) THEN 1 ELSE 0)
       + CountUnmatched(applyElementPatch(els, Head(patches)), Tail(patches))

\* the patches of the list without those that are unmatched when their turn
\* comes
RECURSIVE Matched(_, _)
Matched(els, patches) ==
  IF patches = << >> THEN << >>
  ELSE (IF Unmatched(els, Head(patches)) THEN << >> ELSE <<Head(patches)>>)
       \o Matched(applyElementPatch(els, Head(patches)), Tail(patches))

ApplyPatches ==
  \E patches \in PatchLists :
    LET out == applyPatches(Scene, patches)
    IN /\ Len(out.elements) <= MaxPatchedElements
       /\ elements' = out.elements
       /\ appState' = out.appState
       /\ files' = out.files
       /\ distinct' = (distinct /\ NoDuplicateIds(out.elements))
       /\ patched' = [patches |-> Len(patches),
                      unmatched |-> CountUnmatched(elements, patches)]
       /\ UNCHANGED <<selectedIds, actions, historyState, groupCounter,
                      last, pre, phase, played, listeners, engineListeners,
                      heard, twin, limit>>
       /\ UNCHANGED emitterVars
       /\ UNCHANGED nestVars
       /\ UNCHANGED bodyVars

SpecApply == InitListening /\ [][ApplyPatches]_vars

\* The history functions on their own, used as history.test.ts uses them: a
\* caller keeps a scene, a log and a history state; it applies an action's
\* forward patches, appends the action and advances the history state, and
\* it undoes and redoes with applyUndo/undoHistoryState and
\* applyRedo/redoHistoryState.
HistoryStep(op, scene, log, state) ==
  /\ elements' = scene.elements
  /\ appState' = scene.appState
  /\ files' = scene.files
  /\ actions' = log
  /\ historyState' = state
  /\ last' = [op |-> op, dropped |-> 0]
  /\ distinct' = (distinct /\ NoDuplicateIds(scene.elements))
  /\ UNCHANGED <<selectedIds, groupCounter, pre, phase, played,
                 listeners, engineListeners, heard, twin, limit>>
  /\ UNCHANGED emitterVars
  /\ UNCHANGED nestVars
  /\ UNCHANGED patched
  /\ UNCHANGED bodyVars

HistoryAdvance ==
  \E action \in HistoryActions :
    /\ Len(actions) < MaxHistory
    /\ HistoryStep("advanceHistory", applyPatches(Scene, action.forward),
                   Append(actions, action), advanceHistory(historyState))

HistoryUndo ==
  HistoryStep("undoHistoryState", applyUndo(Scene, actions, historyState),
              actions, undoHistoryState(historyState))

HistoryRedo ==
  HistoryStep("redoHistoryState", applyRedo(Scene, actions, historyState),
              actions, redoHistoryState(historyState))

NextHistory ==
  \/ HistoryAdvance
  \/ HistoryUndo
  \/ HistoryRedo

SpecHistory == InitListening /\ [][NextHistory]_vars

\* loadScene with a log and a history state that nobody has checked, and
\* undo and redo after it.
LoadUnchecked ==
  \E input \in UncheckedLoadInputs :
    Step(Call("loadScene", "", input),
         Controller_loadScene(State, input.scene, input.actions, input.historyState))

NextUnchecked ==
  \/ LoadUnchecked
  \/ Undo
  \/ Redo

SpecUnchecked == InitListening /\ [][NextUnchecked]_vars

\* The block list of a document body, edited with insertBlock, moveBlock
\* and deleteBlock.
BodyStep(list) ==
  /\ blocks' = list
  /\ UNCHANGED <<progVars, last, pre, phase, played, distinct,
                 listeners, engineListeners, heard, twin, limit>>
  /\ UNCHANGED emitterVars
  /\ UNCHANGED nestVars
  /\ UNCHANGED <<patched, lease, now, verdict>>

InsertBlock ==
  \E block \in BlockInputs, afterBlockId \in BlockIds \cup {Null} :
    /\ Len(blocks) < MaxBlocks
    /\ BodyStep(insertBlock(blocks, block, afterBlockId))

MoveBlock ==
  \E blockId \in BlockIds, afterBlockId \in BlockIds \cup {Null} :
    BodyStep(moveBlock(blocks, blockId, afterBlockId))

DeleteBlock ==
  \E blockId \in BlockIds :
    BodyStep(deleteBlock(blocks, blockId))

NextBody ==
  \/ InsertBlock
  \/ MoveBlock
  \/ DeleteBlock

SpecBody == InitListening /\ [][NextBody]_vars

\* The lease of a document body: a lease is granted, time passes, and the
\* lease fields of an operation are validated against the lease.
LeaseStep ==
  /\ UNCHANGED <<progVars, last, pre, phase, played, distinct,
                 listeners, engineListeners, heard, twin, limit>>
  /\ UNCHANGED emitterVars
  /\ UNCHANGED nestVars
  /\ UNCHANGED <<patched, blocks>>

AcquireLease ==
  \E actorId \in ActorIds, sessionId \in SessionIds, leaseId \in LeaseIds,
     time \in 1..MaxLeaseTime :
    /\ lease' = [docId |-> "doc-1", actorId |-> actorId, sessionId |-> sessionId,
                 leaseId |-> leaseId, acquiredAt |-> now, expiresAt |-> now + time]
    /\ verdict' = None
    /\ UNCHANGED now
    /\ LeaseStep

Tick ==
  /\ now < MaxTime
  /\ now' = now + 1
  /\ verdict' = None
  /\ UNCHANGED lease
  /\ LeaseStep

ValidateLease ==
  \E actorId \in ActorIds, sessionId \in SessionIds, leaseId \in LeaseIds :
    /\ lease # None
    /\ verdict' = [actorId |-> actorId, sessionId |-> sessionId, leaseId |-> leaseId,
                   valid |-> validateLease(lease, actorId, sessionId, leaseId, now)]
    /\ UNCHANGED <<lease, now>>
    /\ LeaseStep

NextLease ==
  \/ AcquireLease
  \/ Tick
  \/ ValidateLease

SpecLease == InitListening /\ [][NextLease]_vars

\* Listeners that call the controller from inside their callbacks. A call
\* is made from outside, or by the callback that the innermost emit call
\* has called last. The call runs up to its emitter.emit(this.getState()):
\* the state is taken there, and the loop of emit hands it to the callbacks
\* one at a time.
ReentrantCall ==
  \E call \in Calls :
    LET r   == Perform(State, call)
        out == OnChangeOnly(r.events)
    IN /\ calls < MaxCalls
       /\ IF frames = << >> THEN TRUE
          ELSE Len(frames) < MaxNested /\ Head(frames).em.index > 1
       /\ r.state.groupCounter <= limit
       /\ elements' = r.state.elements
       /\ appState' = r.state.appState
       /\ files' = r.state.files
       /\ selectedIds' = r.state.selectedIds
       /\ actions' = r.state.actions
       /\ historyState' = r.state.historyState
       /\ groupCounter' = r.state.groupCounter
       /\ last' = NextLast(State, call.op, r)
       /\ pre' = NextPre(State, call.op, r.ok)
       /\ phase' = NextPhase(phase, call.op, r.ok)
       /\ played' = NextPlayed(played, call)
       /\ distinct' = (distinct /\ NoDuplicateIds(r.state.elements))
       /\ IF out = << >>
          THEN UNCHANGED <<frames, calls>>
          ELSE /\ calls' = calls + 1
               /\ frames' = <<[em |-> Emitter_begin(listeners, out[1].value),
                               nr |-> calls + 1]>> \o frames
       /\ UNCHANGED <<listeners, engineListeners, heard, twin, limit, sawNr>>
       /\ UNCHANGED emitterVars
       /\ UNCHANGED patched
       /\ UNCHANGED bodyVars

\* the loop of the innermost emit call calls its next callback
ReentrantInvoke ==
  /\ frames # << >>
  /\ ~Emitter_done(Head(frames).em)
  /\ sawNr' = [sawNr EXCEPT ![Emitter_current(Head(frames).em)] = Head(frames).nr]
  /\ frames' = <<[Head(frames) EXCEPT !.em = Emitter_advance(@)]>> \o Tail(frames)
  /\ UNCHANGED <<progVars, last, pre, phase, played, distinct,
                 listeners, engineListeners, heard, twin, limit, calls>>
  /\ UNCHANGED emitterVars
  /\ UNCHANGED patched
  /\ UNCHANGED bodyVars

\* the innermost emit call returns, and with it the controller call
ReentrantReturn ==
  /\ frames # << >>
  /\ Emitter_done(Head(frames).em)
  /\ frames' = Tail(frames)
  /\ UNCHANGED <<progVars, last, pre, phase, played, distinct,
                 listeners, engineListeners, heard, twin, limit, calls, sawNr>>
  /\ UNCHANGED emitterVars
  /\ UNCHANGED patched
  /\ UNCHANGED bodyVars

\* onChange(cb) while no call is in progress
ReentrantOnChange == frames = << >> /\ OnChange

NextReentrant ==
  \/ ReentrantCall
  \/ ReentrantInvoke
  \/ ReentrantReturn
  \/ ReentrantOnChange

InitReentrant == Fresh /\ limit = MaxCalls

SpecReentrant == InitReentrant /\ [][NextReentrant]_vars

\* an action without what each controller draws for itself: the group id
\* and the timestamp
Shape(a) == [drawingId |-> a.drawingId, forward |-> a.forward, inverse |-> a.inverse]

\* two controllers with equal snapshots, equal history states, and logs that
\* are equal up to the group ids and timestamps
Equivalent(a, b) ==
  /\ Engine_getSnapshot(a) = Engine_getSnapshot(b)
  /\ a.historyState = b.historyState
  /\ Len(a.actions) = Len(b.actions)
  /\ \A i \in 1..Len(a.actions) : Shape(a.actions[i]) = Shape(b.actions[i])

EmptyScene ==
  [drawingId |-> DrawingIdValue, elements |-> << >>,
   appState |-> EmptyObject, files |-> EmptyObject]

\* applyPatches folded over the forward patches of the first n actions of log
RECURSIVE Replay(_, _, _)
Replay(scene, log, n) ==
  IF n = 0 THEN scene
  ELSE applyPatches(Replay(scene, log, n - 1), log[n].forward)

\* the ids of the elements, in scene order
Ids(els) == [i \in DOMAIN els |-> els[i].id]

----------------------------------------------------------------------------
\* C1: in every reachable state -1 <= undoCursor <= actionCount - 1 and the
\* action log has exactly actionCount entries.
C1_HistoryConsistent ==
  /\ -1 <= historyState.undoCursor
  /\ historyState.undoCursor <= historyState.actionCount - 1
  /\ Len(actions) = historyState.actionCount

\* C2: whenever undoCursor >= 0, undo() returns true, applies the inverse
\* patches of the action at undoCursor and moves the cursor back by one; it
\* returns false only when undoCursor < 0.
C2_UndoSucceedsFromNonNegativeCursor ==
  LET r == Controller_undo(State) IN
  /\ historyState.undoCursor >= 0 =>
       /\ r.ok
       /\ r.state.historyState.undoCursor = historyState.undoCursor - 1
       /\ Engine_getSnapshot(r.state) =
            Engine_getSnapshot(Controller_rebuildFromPatches(State,
              actions[historyState.undoCursor + 1].inverse))
  /\ ~r.ok => historyState.undoCursor < 0

\* C3: every record() keeps exactly the actions at indices <= undoCursor,
\* appends one action, and leaves undoCursor = newLength - 1 and
\* actionCount = newLength, newLength being the length of the log after it.
C3_RecordSetsCursorToNewLength ==
  [][RecordStep =>
       LET kept == Prefix(actions, historyState.undoCursor + 1) IN
       /\ Len(actions') = Len(kept) + 1
       /\ Prefix(actions', Len(kept)) = kept
       /\ historyState'.undoCursor = Len(actions') - 1
       /\ historyState'.actionCount = Len(actions')]_vars

C5_RecordAfterUndoDiscardsRedo ==
  [][(RecordStep /\ canRedo(historyState)) =>
       /\ ~Controller_getState(State').canRedo
       /\ ~Controller_redo(State').ok
       /\ Len(actions') = historyState.undoCursor + 2]_vars

\* the latest call recorded an action and discarded undone ones
C5_Witness == Recorded /\ last.dropped > 0

\* C6: where undo() succeeds, undo() then redo() leaves elements, appState,
\* files and undoCursor as they were before the undo. Stated in the weakest
\* reading: keys holding undefined left out, and only for the behaviours in
\* which element ids stayed distinct.
C6_UndoRedoRestores ==
  LET u == Controller_undo(State)
      r == Controller_redo(u.state)
  IN (u.ok /\ distinct) =>
       /\ DefinedElements(r.state.elements) = DefinedElements(elements)
       /\ Defined(r.state.appState) = Defined(appState)
       /\ r.state.files = files
       /\ r.state.historyState.undoCursor = historyState.undoCursor

\* C7: after N recorded operations in a row and then up to N undos, the
\* scene is the one from before the first undone operation. Stated in the
\* weakest reading: the elements only, keys holding undefined left out, and
\* only for the behaviours in which element ids stayed distinct.
C7_UndosRestoreStartingScene ==
  (phase.undos >= 1 /\ distinct) =>
    DefinedElements(elements) =
      DefinedElements(pre[historyState.undoCursor + 2].elements)

\* C8: scenario A. add r1{x:10}, update r1.x to 50, delete r1, undo x3 gives
\* no elements; redo x3 then gives [r1 with x = 50].
C8_ScenarioA ==
  /\ At("A", 6) => elements = << >>
  /\ At("A", 9) => elements = <<[id |-> "r1", x |-> "50"]>>

\* C8 as amended: the third redo replays the delete, so redo x3 gives no
\* elements again; [r1 with x = 50] is the scene after the second redo.
C8_ScenarioA_Amended ==
  /\ At("A", 6) => elements = << >>
  /\ At("A", 8) => elements = <<[id |-> "r1", x |-> "50"]>>
  /\ At("A", 9) => elements = << >>

\* scenario A has been played to its end
C8_Witness == At("A", 9)

\* C9: scenario B. add e1, add e2, undo, add e3 gives [e1, e3]; the redo
\* that follows returns false, changes nothing, and canRedo is false.
C9_ScenarioB ==
  /\ At("B", 4) =>
       /\ elements = <<makeElement("e1"), makeElement("e3")>>
       /\ ~Controller_redo(State).ok
       /\ Controller_redo(State).state = State
  /\ At("B", 5) =>
       /\ elements = <<makeElement("e1"), makeElement("e3")>>
       /\ ~Controller_getState(State).canRedo

\* scenario B has been played to its end
C9_Witness == At("B", 5)

\* C10: scenario C. upsertFiles({f1}) records an action whose inverse is an
\* empty upsert; the undo that follows succeeds and moves the cursor back,
\* and f1 is still in the engine's files. In any state, undoing an
\* upsertFiles action leaves the files as they are.
C10_ScenarioC ==
  /\ LET u == Controller_undo(State) IN
     (u.ok /\ actions[historyState.undoCursor + 1].forward[1].type = "upsert_files")
       => u.state.files = files
  /\ At("C", 1) =>
       /\ Len(actions) = 1
       /\ actions[1].inverse = <<[type |-> "upsert_files", files |-> EmptyObject]>>
       /\ Controller_undo(State).ok
  /\ At("C", 2) =>
       /\ last.op = "undo"
       /\ historyState.undoCursor = -1
       /\ "f1" \in DOMAIN files
       /\ files["f1"] = FileA

\* scenario C has been played to its end
C10_Witness == At("C", 2)

\* C11: updateElement(id, patch) and the update_element patch, also when it
\* is applied by undo or redo, leave the id of every element as it is, even
\* when the patch holds another id.
C11_UpdateKeepsId ==
  /\ \A elementId \in ElementIds, patch \in ElementPatches :
       /\ Ids(Controller_updateElement(State, elementId, patch).state.elements)
            = Ids(elements)
       /\ Ids(applyElementPatch(elements,
              [type |-> "update_element", elementId |-> elementId, patch |-> patch]))
            = Ids(elements)
  /\ LET u == Controller_undo(State) IN
     (u.ok /\ actions[historyState.undoCursor + 1].inverse[1].type = "update_element")
       => Ids(u.state.elements) = Ids(elements)
  /\ LET r == Controller_redo(State) IN
     (r.ok /\ actions[historyState.undoCursor + 2].forward[1].type = "update_element")
       => Ids(r.state.elements) = Ids(elements)

\* an update whose patch holds another id was made and has just been undone
C11_Witness ==
  /\ last.op = "undo"
  /\ Len(actions) >= historyState.undoCursor + 2
  /\ LET p == actions[historyState.undoCursor + 2].forward[1] IN
     /\ p.type = "update_element"
     /\ "id" \in DOMAIN p.patch
     /\ p.patch.id # p.elementId

\* C12: in every scene reachable through controller operations from an
\* empty scene, no two elements share an id.
C12_NoDuplicateIds == NoDuplicateIds(elements)

\* C13: undo() with undoCursor < 0 and redo() with undoCursor >=
\* actionCount - 1 return false and change nothing: elements, appState,
\* files, the log, undoCursor and actionCount stay as they are, nothing is
\* emitted, and no onChange listener and no engine subscriber is called.
C13_FailedUndoRedoChangeNothing ==
  /\ historyState.undoCursor < 0 =>
       LET u == Controller_undo(State) IN
       ~u.ok /\ u.state = State /\ u.events = << >>
  /\ historyState.undoCursor >= historyState.actionCount - 1 =>
       LET r == Controller_redo(State) IN
       ~r.ok /\ r.state = State /\ r.events = << >>
  /\ (heard.op \in {"undo", "redo"} /\ ~heard.ok) => heard.to = << >>

\* an undo with nothing left to undo has just failed, with a listener of
\* each kind registered and a log that is not empty
C13_Witness ==
  /\ heard.op = "undo" /\ ~heard.ok
  /\ historyState.undoCursor < 0
  /\ actions # << >>
  /\ listeners # << >> /\ engineListeners # << >>

\* C14: updateElement or deleteElement with an id that is not in the scene
\* changes nothing: the engine state and the log, undoCursor and actionCount
\* stay as they are, nothing is emitted, and no onChange listener and no
\* engine subscriber is called.
C14_MissingIdIsSilentNoOp ==
  /\ \A elementId \in ElementIds :
       Engine_findIndex(State, elementId) = 0 =>
         /\ \A patch \in ElementPatches :
              LET r == Controller_updateElement(State, elementId, patch) IN
              ~r.ok /\ r.state = State /\ r.events = << >>
         /\ LET r == Controller_deleteElement(State, elementId) IN
            ~r.ok /\ r.state = State /\ r.events = << >>
  /\ (heard.op \in {"updateElement", "deleteElement"} /\ ~heard.ok) => heard.to = << >>

\* a deleteElement with an id missing from a scene that is not empty has
\* just been made, with a listener of each kind registered
C14_Witness ==
  /\ heard.op = "deleteElement" /\ ~heard.ok
  /\ elements # << >>
  /\ listeners # << >> /\ engineListeners # << >>

\* C15: the canUndo and canRedo flags that getState() reports, and those
\* carried by every onChange notification, equal undoCursor >= 0 and
\* undoCursor < actionCount - 1 of the historyState reported with them.
C15_FlagsMatchHistoryState ==
  /\ LET st == Controller_getState(State) IN
     /\ st.canUndo = (st.historyState.undoCursor >= 0)
     /\ st.canRedo = (st.historyState.undoCursor < st.historyState.actionCount - 1)
  /\ \A i \in 1..Len(heard.to) :
       heard.to[i].kind = "onChange" =>
         LET st == heard.to[i].value IN
         /\ st.canUndo = (st.historyState.undoCursor >= 0)
         /\ st.canRedo = (st.historyState.undoCursor < st.historyState.actionCount - 1)

\* a listener has just been notified of a state in which the only action is
\* undone: canUndo is false and canRedo is true
C15_Witness ==
  \E i \in 1..Len(heard.to) :
    /\ heard.to[i].kind = "onChange"
    /\ heard.to[i].value.historyState = [undoCursor |-> -1, actionCount |-> 1]
    /\ heard.to[i].value.canRedo /\ ~heard.to[i].value.canUndo

\* C16: each successful mutating operation, undo, redo and loadScene calls
\* every registered onChange listener exactly once, in registration order,
\* with the state that results from the call, after the engine's own
\* emissions and before the call returns (so in the order of the calls); a
\* call that failed or found nothing to change notifies nobody.
C16_EachListenerNotifiedOnce ==
  /\ \A call \in Calls :
       LET r == Perform(State, call) IN
       /\ OnChangeOnly(r.events) =
            IF r.ok
            THEN <<[kind |-> "onChange", value |-> Controller_getState(r.state)]>>
            ELSE << >>
       /\ r.ok => r.events[Len(r.events)].kind = "onChange"
  /\ (heard.op \in MutatingOps \cup {"undo", "redo", "loadScene"} /\ heard.ok) =>
       OnChangeOnly(heard.to) =
         [i \in 1..Len(listeners) |->
            [to |-> listeners[i], kind |-> "onChange",
             value |-> Controller_getState(State)]]
  /\ (heard.op # "none" /\ ~heard.ok) => heard.to = << >>

\* an undo has just notified two listeners
C16_Witness ==
  /\ heard.op = "undo" /\ heard.ok
  /\ Len(listeners) = 2
  /\ Len(OnChangeOnly(heard.to)) = 2

\* C17: setSelection(ids) changes the selection only: elements, appState,
\* files, the log, undoCursor and actionCount stay as they are and no
\* onChange listener is called; an undo() after it does what it would have
\* done without it, and leaves the selection as set.
C17_SelectionNotLogged ==
  /\ \A ids \in SelectionSets :
       LET r == Controller_setSelection(State, ids)
           u == Controller_undo(r.state)
           v == Controller_undo(State)
       IN /\ r.state = [State EXCEPT !.selectedIds = ids]
          /\ OnChangeOnly(r.events) = << >>
          /\ u.ok = v.ok
          /\ u.state = [v.state EXCEPT !.selectedIds = ids]
  /\ heard.op = "setSelection" => OnChangeOnly(heard.to) = << >>

\* a selection has just been set while a listener was registered and an
\* action could be undone
C17_Witness ==
  /\ heard.op = "setSelection"
  /\ selectedIds = {"e1"}
  /\ listeners # << >>
  /\ actions # << >> /\ Controller_undo(State).ok

\* C18: after loadScene(scene, actions, historyState) the engine snapshot is
\* the scene's elements, appState and files, getState() reports the given
\* actions and the given historyState as they were given, nothing has been
\* appended to the log (no group id was drawn), and every onChange listener
\* has been called exactly once.
C18_LoadSceneLoadsVerbatim ==
  /\ \A input \in LoadInputs :
       LET r == Controller_loadScene(State, input.scene, input.actions,
                                     input.historyState)
       IN /\ Controller_getSnapshot(r.state) =
               [elements |-> input.scene.elements,
                appState |-> input.scene.appState,
                files    |-> input.scene.files]
          /\ Controller_getState(r.state).actions = input.actions
          /\ Controller_getState(r.state).historyState = input.historyState
          /\ r.state.groupCounter = groupCounter
          /\ Len(OnChangeOnly(r.events)) = 1
  /\ heard.op = "loadScene" =>
       /\ \E input \in LoadInputs :
            /\ elements = input.scene.elements
            /\ appState = input.scene.appState
            /\ files = input.scene.files
            /\ actions = input.actions
            /\ historyState = input.historyState
       /\ OnChangeOnly(heard.to) =
            [i \in 1..Len(listeners) |->
               [to |-> listeners[i], kind |-> "onChange",
                value |-> Controller_getState(State)]]

\* a scene has just been loaded into a controller that had recorded an
\* action of its own, while a listener was registered
C18_Witness ==
  /\ heard.op = "loadScene"
  /\ groupCounter >= 1
  /\ actions = <<LoadedAction>>
  /\ listeners # << >>

\* C19: a controller restored through loadScene from the snapshot, log and
\* history state of this one holds them as they are here; from then on every
\* undo, redo and mutating operation made on both returns the same on both
\* and leaves equal snapshots, equal history states and logs equal up to the
\* group ids and timestamps of the actions.
C19_RestoredTwinAgrees ==
  /\ LET b == Controller_loadScene(FreshState,
                [drawingId |-> DrawingIdValue,
                 elements  |-> Controller_getSnapshot(State).elements,
                 appState  |-> Controller_getSnapshot(State).appState,
                 files     |-> Controller_getSnapshot(State).files],
                Controller_getState(State).actions,
                Controller_getState(State).historyState).state
     IN /\ Controller_getSnapshot(b) = Controller_getSnapshot(State)
        /\ Controller_getState(b).actions = Controller_getState(State).actions
        /\ Controller_getState(b).historyState = Controller_getState(State).historyState
  /\ twin # None =>
       /\ Equivalent(State, twin)
       /\ \A call \in Calls :
            call.op # "loadScene" =>
              /\ Perform(State, call).ok = Perform(twin, call).ok
              /\ Equivalent(Perform(State, call).state, Perform(twin, call).state)

\* the second controller was restored after an action had been recorded;
\* then another action was recorded on both, and has just been undone
C19_Witness ==
  /\ twin # None
  /\ twin.groupCounter >= 1
  /\ groupCounter > twin.groupCounter
  /\ last.op = "undo"

\* C20: deleteElement(id) followed at once by undo() leaves the elements as
\* they were before the delete, the same elements in the same order,
\* wherever in the sequence the element was. Stated for the scenes without
\* duplicate ids, reached with a consistent history.
C20_DeleteUndoRestoresOrder ==
  \A elementId \in ElementIds :
    LET d == Controller_deleteElement(State, elementId)
        u == Controller_undo(d.state)
    IN (d.ok /\ distinct /\ C1_HistoryConsistent) =>
         /\ u.ok
         /\ u.state.elements = elements

\* C21: setAppState(patch) or updateElement(id, patch) followed at once by
\* undo() leaves the appState (the element) with exactly the keys and values
\* it had before the call, whether the keys of the patch were present or
\* absent. Stated for the calls made at the end of a consistent history, on
\* scenes without duplicate ids.
C21_PatchUndoRestoresKeys ==
  (C1_HistoryConsistent /\ ~canRedo(historyState)) =>
    /\ \A patch \in AppStatePatches :
         LET u == Controller_undo(Controller_setAppState(State, patch).state)
         IN u.ok /\ u.state.appState = appState
    /\ \A elementId \in ElementIds, patch \in ElementPatches :
         LET r == Controller_updateElement(State, elementId, patch)
             u == Controller_undo(r.state)
         IN (r.ok /\ distinct) => (u.ok /\ u.state.elements = elements)

\* C22: addElement(e) followed at once by undo() leaves the elements as they
\* were before the add, for every element e and every reachable scene.
C22_AddUndoRestoresElements ==
  \A element \in NewElements :
    LET u == Controller_undo(Controller_addElement(State, element).state)
    IN u.state.elements = elements

\* C23: in every state reached from a fresh controller, applyPatches folded
\* over the forward patches of the logged actions at indices 0..undoCursor,
\* from the empty scene, gives the engine's snapshot. Stated in the weakest
\* reading: the elements only, keys holding undefined left out, where the
\* log has all those actions and element ids stayed distinct.
C23_ReplayGivesSnapshot ==
  (historyState.undoCursor < Len(actions) /\ distinct) =>
    DefinedElements(Replay(EmptyScene, actions, historyState.undoCursor + 1).elements)
      = DefinedElements(elements)

\* C24: for every mutating operation that records an action, applyPatches
\* of that action's forward patches on the engine snapshot taken just
\* before the operation gives the engine snapshot taken just after it, in
\* every reachable scene.
C24_EngineAgreesWithApplier ==
  \A call \in Calls :
    call.op \in MutatingOps =>
      LET r       == Perform(State, call)
          before  == [drawingId |-> DrawingIdValue, elements |-> elements,
                      appState |-> appState, files |-> files]
          applied == applyPatches(before, r.state.actions[Len(r.state.actions)].forward)
      IN r.ok =>
           [elements |-> applied.elements, appState |-> applied.appState,
            files |-> applied.files] = Engine_getSnapshot(r.state)

C26_RedoReturnsForward ==
  LET r == Recorder_redo(State) IN
  /\ historyState.undoCursor < historyState.actionCount - 1 =>
       /\ HasAction(State, historyState.undoCursor + 1)
       /\ r.ok
       /\ r.patches = actions[historyState.undoCursor + 2].forward
       /\ r.state = [State EXCEPT !.historyState.undoCursor = historyState.undoCursor + 1]
  /\ historyState.undoCursor >= historyState.actionCount - 1 =>
       /\ ~r.ok
       /\ r.state = State
  /\ Controller_redo(State).ok = r.ok

\* a redo has just been made and another one is possible
C26_Witness ==
  /\ last.op = "redo"
  /\ historyState.undoCursor >= 0
  /\ historyState.undoCursor < historyState.actionCount - 1

\* C27: for every action recorded by updateElement or setAppState, the
\* inverse patch has exactly the keys of the forward patch, each with the
\* value the key had in the element (the appState) before the call,
\* undefined for a key that was absent.
C27_MinimalInverse ==
  \A i \in 1..Len(actions) :
    LET f == actions[i].forward[1]
        v == actions[i].inverse[1]
    IN /\ f.type = "update_element" =>
            LET idx == Engine_findIndex(pre[i], f.elementId) IN
            /\ idx > 0
            /\ v.type = "update_element" /\ v.elementId = f.elementId
            /\ DOMAIN v.patch = DOMAIN f.patch
            /\ \A key \in DOMAIN f.patch :
                 v.patch[key] = Get(pre[i].elements[idx], key)
       /\ f.type = "set_app_state" =>
            /\ v.type = "set_app_state"
            /\ DOMAIN v.patch = DOMAIN f.patch
            /\ \A key \in DOMAIN f.patch :
                 v.patch[key] = Get(pre[i].appState, key)

\* an updateElement has just been recorded whose patch has a key the
\* element had (id) and a key it did not have (tag)
C27_Witness ==
  /\ Recorded /\ last.op = "updateElement"
  /\ Len(actions) >= 1
  /\ LET v == actions[Len(actions)].inverse[1] IN
     /\ v.type = "update_element"
     /\ DOMAIN v.patch = {"id", "tag"}
     /\ v.patch.tag = Undefined
     /\ v.patch.id = v.elementId

\* what getState() reports for the log and the history state given
StateView(log, hs) ==
  [drawingId    |-> DrawingIdValue,
   historyState |-> hs,
   actions      |-> log,
   canUndo      |-> hs.undoCursor >= 0,
   canRedo      |-> hs.undoCursor < hs.actionCount - 1]

\* what a successful undo or redo with the patches given must leave and
\* emit: the engine reloaded once with the patches applied to its current
\* snapshot, then one onChange with the cursor at its new place
Reloaded(r, patches, cursor) ==
  LET target == applyPatches([drawingId |-> DrawingIdValue, elements |-> elements,
                              appState |-> appState, files |-> files], patches)
      moved  == [undoCursor |-> cursor, actionCount |-> historyState.actionCount]
  IN /\ Engine_getSnapshot(r.state) =
          [elements |-> target.elements, appState |-> target.appState,
           files |-> target.files]
     /\ r.state.historyState = moved
     /\ r.events = <<[kind |-> "onElementsChange", value |-> target.elements],
                     [kind |-> "onChange", value |-> StateView(actions, moved)]>>

\* C28: a successful undo()/redo() applies the patches it got from the
\* recorder to the engine's current snapshot and reloads the engine with the
\* result through one loadSnapshot (one onElementsChange emission), then
\* emits one onChange and returns true; the state the listeners are given
\* has the cursor already moved.
C28_UndoRedoReloadThenEmit ==
  /\ LET u == Controller_undo(State) IN
     u.ok => Reloaded(u, actions[historyState.undoCursor + 1].inverse,
                      historyState.undoCursor - 1)
  /\ LET r == Controller_redo(State) IN
     r.ok => Reloaded(r, actions[historyState.undoCursor + 2].forward,
                      historyState.undoCursor + 1)
  /\ (heard.op \in {"undo", "redo"} /\ heard.ok) =>
       heard.to =
         [i \in 1..Len(engineListeners) |->
            [to |-> engineListeners[i], kind |-> "onElementsChange",
             value |-> elements]]
         \o [i \in 1..Len(listeners) |->
               [to |-> listeners[i], kind |-> "onChange",
                value |-> StateView(actions, historyState)]]

\* a redo has just succeeded with a listener of each kind registered
C28_Witness ==
  /\ heard.op = "redo" /\ heard.ok
  /\ listeners # << >> /\ engineListeners # << >>

\* C29: emit(value) calls every callback that is registered when emit is
\* called, once for each of its registrations, in the order of the
\* registrations, before another emit begins. A callback that is registered
\* while emit runs, onto the array emit walks, is called in its turn as well.
C29_EmitCallsEachRegistrationInOrder ==
  /\ emission.index <= Len(emission.array) + 1
  /\ invoked = Prefix(emission.array, emission.index - 1)
  /\ Emitter_done(emission) => invoked = emission.array
  /\ (emission.running /\ emission.shared) => emission.array = listeners
  /\ \A value \in EmitValues :
       /\ Emitter_begin(listeners, value).array = listeners
       /\ Emitter_emit(listeners, "onChange", value) =
            [i \in 1..Len(listeners) |->
               [to |-> listeners[i], kind |-> "onChange", value |-> value]]

\* an emit call has called one callback twice, for its two registrations
C29_Witness ==
  /\ Emitter_done(emission)
  /\ invoked = <<"L1", "L1">>

\* C30: once the unsubscribe function of a callback has been called, the
\* callback is not called again, also when another callback calls the
\* unsubscribe function while an emit call is in progress.
C30_NoCallAfterUnsubscribe ==
  [][(/\ Len(invoked') > Len(invoked)
      /\ \A i, j \in 1..Len(emission.array) :
            emission.array[i] = emission.array[j] => i = j)
     => invoked'[Len(invoked')] \notin cancelled]_vars

\* C31: calling an unsubscribe function removes the one registration it was
\* returned for; every other registration, a second registration of the same
\* callback included, stays registered in its place.
C31_UnsubscribeRemovesOneRegistration ==
  [][Len(listeners') < Len(listeners) =>
       \E i \in 1..Len(listeners) :
         listeners' = [j \in 1..(Len(listeners) - 1) |->
                         IF j < i THEN listeners[j] ELSE listeners[j + 1]]]_vars

\* C32: whenever an onChange listener is called, the state it is given is
\* the controller's getState() at that moment, and a listener is given the
\* states of the calls in the order the calls took effect, also when an
\* earlier listener of the same emission calls the controller.
C32_ListenerGivenCurrentState ==
  [][(Len(frames') = Len(frames) /\ frames' # frames) =>
       /\ Head(frames).em.value = Controller_getState(State)
       /\ Head(frames).nr >= sawNr[Emitter_current(Head(frames).em)]]_vars

\* C33: addElement, loadSnapshot and an updateElement or deleteElement that
\* finds its element call every subscriber's onElementsChange once, in the
\* order of the subscriptions, with the elements the call has left; an
\* updateElement or deleteElement that finds no element calls nobody;
\* setSelection calls every subscriber's onSelectionChange once with the new
\* selection.
C33_EngineCallsSubscribersOnce ==
  /\ (heard.op \in {"addElement", "loadSnapshot", "updateElement", "deleteElement"}
        /\ heard.ok) =>
       heard.to = [i \in 1..Len(engineListeners) |->
                     [to |-> engineListeners[i], kind |-> "onElementsChange",
                      value |-> elements]]
  /\ (heard.op \in {"updateElement", "deleteElement"} /\ ~heard.ok) =>
       heard.to = << >>
  /\ heard.op = "setSelection" =>
       heard.to = [i \in 1..Len(engineListeners) |->
                     [to |-> engineListeners[i], kind |-> "onSelectionChange",
                      value |-> selectedIds]]
  /\ \A elementId \in ElementIds, patch \in ElementPatches :
       /\ Engine_updateElement(State, elementId, patch).found =
            (\E i \in 1..Len(elements) : elements[i].id = elementId)
       /\ Engine_deleteElement(State, elementId).found =
            (\E i \in 1..Len(elements) : elements[i].id = elementId)

\* an updateElement that found its element has called two subscribers, the
\* one that subscribed first before the other
C33_Witness ==
  /\ heard.op = "updateElement" /\ heard.ok
  /\ Len(heard.to) = 2
  /\ heard.to[1].to = "E2"
  /\ heard.to[2].value = elements

\* C34: updateElement(id, patch) on a present id returns the element as it
\* was before the call, and leaves in its place that element overridden by
\* the fields of the patch other than id, every other element staying what
\* and where it was; setAppState(patch) returns the appState as it was
\* before the merge.
C34_UpdateReturnsPreImage ==
  /\ \A elementId \in ElementIds, patch \in ElementPatches :
       LET r   == Engine_updateElement(State, elementId, patch)
           idx == Engine_findIndex(State, elementId)
       IN idx # 0 =>
            /\ r.found
            /\ r.ret = elements[idx]
            /\ Len(r.state.elements) = Len(elements)
            /\ r.state.elements[idx] =
                 [k \in (DOMAIN elements[idx]) \cup (DOMAIN patch) |->
                    IF k \in DOMAIN patch /\ k # "id"
                    THEN patch[k] ELSE elements[idx][k]]
            /\ \A j \in 1..Len(elements) :
                 j # idx => r.state.elements[j] = elements[j]
  /\ \A patch \in AppStatePatches :
       LET r == Engine_setAppState(State, patch)
       IN /\ r.ret = appState
          /\ r.state.appState = Spread(appState, patch)

\* an updateElement has changed the first of two elements, and a setAppState
\* has changed the appState
C34_Witness ==
  /\ heard.op = "updateElement" /\ heard.ok
  /\ Len(elements) = 2
  /\ elements[1] # makeElement(elements[1].id)
  /\ elements[2] = makeElement(elements[2].id)
  /\ appState # EmptyObject

\* C35: a patch changes at most its own container: add_element,
\* update_element and delete_element leave appState and files as they are,
\* set_app_state leaves elements and files, upsert_files leaves elements and
\* appState; applyPatches never changes drawingId, and applyPatches(scene, [])
\* is the scene.
C35_PatchChangesOwnContainer ==
  /\ \A patch \in PatchInputs :
       LET out == applyPatches(Scene, <<patch>>) IN
       /\ patch.type \in {"add_element", "update_element", "delete_element"} =>
            /\ applyAppStatePatch(appState, patch) = appState
            /\ applyFilesPatch(files, patch) = files
            /\ out.appState = appState /\ out.files = files
       /\ patch.type = "set_app_state" =>
            /\ applyElementPatch(elements, patch) = elements
            /\ applyFilesPatch(files, patch) = files
            /\ out.elements = elements /\ out.files = files
       /\ patch.type = "upsert_files" =>
            /\ applyElementPatch(elements, patch) = elements
            /\ applyAppStatePatch(appState, patch) = appState
            /\ out.elements = elements /\ out.appState = appState
  /\ \A patches \in PatchLists :
       applyPatches(Scene, patches).drawingId = DrawingIdValue
  /\ applyPatches(Scene, << >>) = Scene

\* patches have filled all three containers
C35_Witness ==
  /\ patched.patches = MaxPatches
  /\ elements # << >>
  /\ appState # EmptyObject
  /\ files # EmptyObject

\* C36: a patch of a type that apply.ts does not know, and an update_element
\* or delete_element patch that names no element of the scene, leave
\* elements, appState and files as they are, and the patches after it in the
\* list are applied all the same.
C36_UnmatchedPatchIsSkipped ==
  /\ \A patch \in PatchInputs :
       Unmatched(elements, patch) =>
         /\ applyPatches(Scene, <<patch>>) = Scene
         /\ \A rest \in PatchLists :
              Len(rest) < MaxPatches =>
                applyPatches(Scene, <<patch>> \o rest) = applyPatches(Scene, rest)
  /\ \A patches \in PatchLists :
       applyPatches(Scene, patches) = applyPatches(Scene, Matched(elements, patches))

\* an applyPatches call whose first patch matched nothing has changed the scene
C36_Witness ==
  /\ patched.patches = MaxPatches
  /\ patched.unmatched = 1
  /\ Len(elements) = MaxPatchedElements

\* C37: on a history state with -1 <= undoCursor <= actionCount - 1,
\* undoHistoryState and redoHistoryState leave actionCount as it is, keep
\* undoCursor within those bounds, return the state itself at their bound,
\* and redoHistoryState(undoHistoryState(s)) = s when canUndo(s); applyUndo
\* and applyRedo return the scene itself when canUndo, canRedo is false.
C37_PureHistoryKeepsConsistency ==
  LET s == historyState
      u == undoHistoryState(s)
      r == redoHistoryState(s)
  IN (-1 <= s.undoCursor /\ s.undoCursor <= s.actionCount - 1) =>
       /\ u.actionCount = s.actionCount /\ r.actionCount = s.actionCount
       /\ -1 <= u.undoCursor /\ u.undoCursor <= u.actionCount - 1
       /\ -1 <= r.undoCursor /\ r.undoCursor <= r.actionCount - 1
       /\ s.undoCursor = -1 => u = s
       /\ s.undoCursor = s.actionCount - 1 => r = s
       /\ canUndo(s) => (u.undoCursor = s.undoCursor - 1 /\ redoHistoryState(u) = s)
       /\ canRedo(s) => r.undoCursor = s.undoCursor + 1
       /\ ~canUndo(s) => applyUndo(Scene, actions, s) = Scene
       /\ ~canRedo(s) => applyRedo(Scene, actions, s) = Scene

\* every action of a full log has been undone, with the scene changed on
\* the way
C37_Witness ==
  /\ last.op = "undoHistoryState"
  /\ historyState = [undoCursor |-> -1, actionCount |-> MaxHistory]
  /\ Len(actions) = MaxHistory
  /\ appState # EmptyObject

\* C38: after a load of any log and history state, matching or not, undo()
\* and redo() either take the patches of the action that the log holds at
\* the index they address, apply them and move the cursor by one, or fail
\* and leave the cursor, the log and the engine as they are.
C38_UndoRedoSafeAfterLoad ==
  LET u     == Controller_undo(State)
      r     == Controller_redo(State)
      c     == historyState.undoCursor
      scene == [drawingId |-> DrawingIdValue, elements |-> elements,
                appState |-> appState, files |-> files]
      After(res, patches) ==
        LET out == applyPatches(scene, patches)
        IN Engine_getSnapshot(res.state) =
             [elements |-> out.elements, appState |-> out.appState, files |-> out.files]
  IN /\ u.ok => /\ HasAction(State, c)
                /\ u.state.historyState =
                     [historyState EXCEPT !.undoCursor = c - 1]
                /\ u.state.actions = actions
                /\ After(u, actions[c + 1].inverse)
     /\ ~u.ok => u.state = State /\ u.events = << >>
     /\ r.ok => /\ HasAction(State, c + 1)
                /\ r.state.historyState =
                     [historyState EXCEPT !.undoCursor = c + 1]
                /\ r.state.actions = actions
                /\ After(r, actions[c + 2].forward)
     /\ ~r.ok => r.state = State /\ r.events = << >>

\* a redo has succeeded on a log shorter than its actionCount, and the next
\* redo, allowed by canRedo, finds no action
C38_Witness ==
  /\ last.op = "redo"
  /\ historyState.actionCount > Len(actions)
  /\ canRedo(historyState)
  /\ ~Controller_redo(State).ok

\* the number of times block b is in the list
Occurrences(list, b) == Cardinality({i \in 1..Len(list) : list[i] = b})

\* C39: moveBlock(blocks, blockId, afterBlockId) returns a list of the same
\* blocks as blocks, none lost and none twice, with the moved block first
\* when afterBlockId is null and right after the block afterBlockId
\* otherwise; when no block has blockId it returns blocks. (Stated for an
\* afterBlockId that is null or names another block of the list.)
C39_MoveBlockKeepsBlocks ==
  \A blockId \in BlockIds, afterBlockId \in BlockIds \cup {Null} :
    LET out == moveBlock(blocks, blockId, afterBlockId) IN
    IF findBlockIndex(blocks, blockId) = 0 THEN out = blocks
    ELSE (\/ afterBlockId = Null
          \/ afterBlockId # blockId /\ findBlockIndex(blocks, afterBlockId) # 0) =>
           /\ \A b \in BlockInputs : Occurrences(out, b) = Occurrences(blocks, b)
           /\ afterBlockId = Null => out[1].id = blockId
           /\ afterBlockId # Null =>
                \E i \in 1..(Len(out) - 1) :
                  out[i].id = afterBlockId /\ out[i + 1].id = blockId

\* the same for a list in which no two blocks have one id
C39_MoveBlockKeepsDistinctBlocks ==
  (\A i, j \in 1..Len(blocks) : blocks[i].id = blocks[j].id => i = j)
    => C39_MoveBlockKeepsBlocks

\* C40: validateLease(lease, actorId, sessionId, leaseId, now) is true
\* exactly when leaseId, actorId and sessionId are the lease's and
\* lease.expiresAt > now; at now = expiresAt it is false.
C40_ValidateLeaseExact ==
  lease # None =>
    /\ \A actorId \in ActorIds, sessionId \in SessionIds, leaseId \in LeaseIds :
         validateLease(lease, actorId, sessionId, leaseId, now) =
           (/\ leaseId = lease.leaseId
            /\ actorId = lease.actorId
            /\ sessionId = lease.sessionId
            /\ lease.expiresAt > now)
    /\ verdict # None =>
         verdict.valid =
           (/\ verdict.leaseId = lease.leaseId
            /\ verdict.actorId = lease.actorId
            /\ verdict.sessionId = lease.sessionId
            /\ lease.expiresAt > now)
    /\ (verdict # None /\ now = lease.expiresAt) => ~verdict.valid

\* the owner's fields have been validated at the very time the lease expires
C40_Witness ==
  /\ lease # None
  /\ verdict # None
  /\ now = lease.expiresAt
  /\ verdict.leaseId = lease.leaseId
  /\ verdict.actorId = lease.actorId
  /\ verdict.sessionId = lease.sessionId

====
